---- MODULE Spec2Model ----
(***************************************************************************)
(* Model of the Sensu Go alert service of kapacitor                        *)
(* (services/sensugo): the configuration holder (Config, Service.Update),  *)
(* the delivery engine (Service.Alert), the self-test entry (Service.Test) *)
(* and the route binding (handler.Handle).                                 *)
(*                                                                         *)
(* A worker is one goroutine of the host engine that calls Handle or Test. *)
(* Alert is cut where another goroutine can interleave with an effect on   *)
(* what Alert reads: after the atomic load of the configuration and around *)
(* the blocking HTTP round trip.  Update is one atomic Store.              *)
(***************************************************************************)
EXTENDS Integers, Sequences, FiniteSets, TLC

VARIABLES
    configValue,   \* Service.configValue: the stored Config
    lastUpdate,    \* what the most recent Update call was given and returned
    pc,            \* per worker: "idle", "loaded", "posting", "done"
    via,           \* per worker: entry point of the call, "Handle" or "Test"
    hc,            \* per worker: the HandlerConfig of the handler called (h.c)
    ev,            \* per worker: the alert.Event handled
    args,          \* per worker: the arguments Alert was called with
    c,             \* per worker: Alert's local c, the snapshot it loaded
    req,           \* per worker: the HTTP request Alert built
    posts,         \* per worker: calls of httpClient.Do made by this call
    resp,          \* per worker: what httpClient.Do returned
    ret,           \* per worker: the error Alert (or Test, before Alert) returned
    diag           \* per worker: entries this call wrote to the Diagnostic sinks

vars ==
    <<configValue, lastUpdate, pc, via, hc, ev, args, c, req, posts, resp, ret, diag>>

----------------------------------------------------------------------------
(* Values.  A Go map is the set of its <<key, value>> pairs, a Go slice a  *)
(* sequence, a Go error its message, with NoError for the nil error.       *)

NoError == "nil"

Nil == [nil |-> TRUE]

Has(m, k) == \E p \in m : p[1] = k

Get(m, k) == (CHOOSE p \in m : p[1] = k)[2]

----------------------------------------------------------------------------
(* Input domains *)

Workers == {"w1"}

URLs == {"", "http://sensu:8080/api", ":bad"}

Tokens == {"Key a", "Key b"}

Namespaces == {"", "default"}

HandlerLists == {<<>>, <<"slack", "email">>}

\* type Config struct
Configs ==
    [Enabled : BOOLEAN, URL : URLs, Token : Tokens,
     Namespace : Namespaces, Handlers : HandlerLists]

\* The configurations swapped in while deliveries run: every Enabled and
\* URL, with the defaults all unset or all set.
HotConfigs ==
    {cfg \in Configs :
        \/ cfg.Token = "Key a" /\ cfg.Namespace = "" /\ cfg.Handlers = <<>>
        \/ cfg.Token = "Key b" /\ cfg.Namespace = "default" /\ cfg.Handlers # <<>>}

\* alert.Level values: the four the switch of Alert names, and one it does not
Levels == {"OK", "Info", "Warning", "Critical", "maxLevel"}

\* type HandlerConfig struct (the fields Handle reads)
HandlerConfigs ==
    [Entity : {"", "fixed"}, EntityTag : {"", "host"},
     Namespace : {"", "prod"}, Handlers : {<<>>, <<"pagerduty">>},
     Labels : {{<<"team", "ops">>}}]

\* event.Data.Tags
TagMaps == {{<<"host", "db1">>}, {<<"dc", "eu">>}}

\* alert.Event (the fields Handle reads)
Events ==
    [ID : {"cpu"}, Message : {"cpu is high"}, Level : Levels, Tags : TagMaps]

\* The value TestOptions returns
DefaultTestOptions ==
    [type |-> "*testOptions", Check |-> "testName", Entity |-> "testEntity",
     EntityTag |-> "testEntityTag", Message |-> "testMessage",
     Namespace |-> "test", Handlers |-> <<>>, Labels |-> {},
     Level |-> "Critical"]

\* What Test is called with: the default options, options a user edited, and
\* a value of another type.
TestInputs ==
    {DefaultTestOptions,
     [DefaultTestOptions EXCEPT !.Namespace = "", !.Handlers = <<"pagerduty">>,
                                !.Level = "Warning"],
     [type |-> "string"]}

\* time.Now().Unix() at dispatch
Clock == {1700000000}

\* What httpClient.Do returns for a URL with a scheme the client supports
TransportErrors == {"connection refused", "context deadline exceeded"}

StatusCodes == {200, 204, 500}

\* The elements of the slices Update is called with
Payload(cfg) == [type |-> "Config", value |-> cfg]

NotAConfig == [type |-> "string", value |-> Nil]

----------------------------------------------------------------------------
(* Pure functions of the source *)

\* Config.Validate
Validate(cfg) ==
    IF cfg.Enabled /\ cfg.URL = "" THEN "must specify backend URL" ELSE NoError

\* Service.config
config == configValue

\* The error Update returns for newConfig
UpdateErr(newConfig) ==
    IF Len(newConfig) # 1
    THEN "expected only one new config object, got " \o ToString(Len(newConfig))
    ELSE IF newConfig[1].type # "Config"
    THEN "expected config object to be of type Config, got " \o newConfig[1].type
    ELSE NoError

\* Mutant of Enabled: the gate left out
EnabledAlways(cfg) == TRUE

\* The gate of Alert: c.Enabled
Enabled(cfg) == cfg.Enabled

\* Mutant of Status: Info falls through to the Warning case
StatusInfoAsWarning(level) ==
    CASE level = "OK" -> 0
      [] level = "Info" -> 1
      [] level = "Warning" -> 1
      [] level = "Critical" -> 2
      [] OTHER -> 3

\* The switch of Alert on level
Status(level) ==
    CASE level = "OK" -> 0
      [] level = "Info" -> 0
      [] level = "Warning" -> 1
      [] level = "Critical" -> 2
      [] OTHER -> 3

\* event.Entity.Metadata.Namespace
ResolveNamespace(namespace, cfg) ==
    IF namespace # "" THEN namespace ELSE cfg.Namespace

\* Mutant of ResolveHandlers: the default list wins when it is set
ResolveHandlersDefaultFirst(handlers, cfg) ==
    IF Len(cfg.Handlers) > 0 THEN cfg.Handlers ELSE handlers

\* event.Check.Handlers
ResolveHandlers(handlers, cfg) ==
    IF Len(handlers) > 0 THEN handlers ELSE cfg.Handlers

\* The PostEvent Alert fills in
BuildEvent(a, cfg, now) ==
    [entity |->
        [entity_class |-> "proxy",
         metadata |-> [name |-> a.entity,
                       namespace |-> ResolveNamespace(a.namespace, cfg),
                       labels |-> a.labels]],
     check |->
        [output |-> a.message,
         status |-> Status(a.level),
         metadata |-> [name |-> a.check, labels |-> a.labels],
         issued |-> now,
         executed |-> now,
         handlers |-> ResolveHandlers(a.handlers, cfg)]]

\* json.Marshal(event): a PostEvent holds strings, integers, string maps and
\* string slices only, which encoding/json always encodes.
Marshal(event) == [data |-> event, err |-> NoError]

\* url.Parse as http.NewRequest uses it: a first path segment with a colon
\* and no scheme is rejected, the empty URL is accepted.
ParseErr(url) == IF url = ":bad" THEN "missing protocol scheme" ELSE NoError

\* Mutant of NewRequest: the configuration is loaded again for the URL and
\* the token
NewRequestReloads(w, data) ==
    IF ParseErr(config.URL) # NoError
    THEN [err |-> "failed to create POST request: " \o ParseErr(config.URL),
          req |-> Nil]
    ELSE [err |-> NoError,
          req |-> [method |-> "POST", url |-> config.URL, body |-> data,
                   Authorization |-> config.Token,
                   ContentType |-> "application/json"]]

\* http.NewRequest("POST", c.URL, data) and the two headers set on it
NewRequest(w, data) ==
    IF ParseErr(c[w].URL) # NoError
    THEN [err |-> "failed to create POST request: " \o ParseErr(c[w].URL),
          req |-> Nil]
    ELSE [err |-> NoError,
          req |-> [method |-> "POST", url |-> c[w].URL, body |-> data,
                   Authorization |-> c[w].Token,
                   ContentType |-> "application/json"]]

\* What httpClient.Do can return for a request to url
DoOutcomes(url) ==
    IF url = ""
    THEN {[err |-> "unsupported protocol scheme", status |-> 0]}
    ELSE {[err |-> e, status |-> 0] : e \in TransportErrors}
         \cup {[err |-> NoError, status |-> s] : s \in StatusCodes}

\* strconv.Itoa
Itoa(n) == ToString(n)

\* Mutant of AlertLog: a transport error is returned without an entry
AlertLogStatusOnly(r) ==
    IF r.err = NoError /\ r.status \div 100 # 2
    THEN <<[sink |-> "service",
            msg |-> "POST returned non 2xx status code (" \o ToString(r.status) \o ")",
            err |-> NoError, code |-> Itoa(r.status)]>>
    ELSE <<>>

\* The entries Alert writes to s.diag once Do returned r
AlertLog(r) ==
    IF r.err # NoError
    THEN <<[sink |-> "service", msg |-> "Failed to POST to Sensu Go",
            err |-> r.err, code |-> ""]>>
    ELSE IF r.status \div 100 # 2
    THEN <<[sink |-> "service",
            msg |-> "POST returned non 2xx status code (" \o ToString(r.status) \o ")",
            err |-> NoError, code |-> Itoa(r.status)]>>
    ELSE <<>>

\* Mutant of AlertErr: a non-2xx status is returned as an error
AlertErrOnStatus(r) ==
    IF r.err = NoError /\ r.status \div 100 # 2
    THEN "unexpected status " \o ToString(r.status)
    ELSE r.err

\* The error Alert returns once Do returned r
AlertErr(r) == r.err

\* Mutant of ResolveEntity: the tag is looked up first
ResolveEntityTagFirst(h, e) ==
    IF h.EntityTag # "" /\ Has(e.Tags, h.EntityTag)
    THEN Get(e.Tags, h.EntityTag)
    ELSE h.Entity

\* The entity name Handle passes to Alert
ResolveEntity(h, e) ==
    IF h.Entity = "" /\ h.EntityTag # "" /\ Has(e.Tags, h.EntityTag)
    THEN Get(e.Tags, h.EntityTag)
    ELSE h.Entity

\* Mutant of HandleLog: the error Alert returned is dropped
HandleLogNothing(v, err) == <<>>

\* The entries Handle writes to h.diag once Alert returned err
HandleLog(v, err) ==
    IF v = "Handle" /\ err # NoError
    THEN <<[sink |-> "handler", msg |-> "failed to send event to Sensu Go",
            err |-> err, code |-> ""]>>
    ELSE <<>>

----------------------------------------------------------------------------
(* State machine *)

NoUpdate == [newConfig |-> <<>>, err |-> "-"]

\* NewService(c, d), with c a configuration that passed Validate, and no
\* call in progress
InitWorkers ==
    /\ lastUpdate = NoUpdate
    /\ pc = [w \in Workers |-> "idle"]
    /\ via = [w \in Workers |-> "-"]
    /\ hc = [w \in Workers |-> Nil]
    /\ ev = [w \in Workers |-> Nil]
    /\ args = [w \in Workers |-> Nil]
    /\ c = [w \in Workers |-> Nil]
    /\ req = [w \in Workers |-> Nil]
    /\ posts = [w \in Workers |-> 0]
    /\ resp = [w \in Workers |-> Nil]
    /\ ret = [w \in Workers |-> "-"]
    /\ diag = [w \in Workers |-> <<>>]

Init ==
    /\ configValue \in {cfg \in HotConfigs : Validate(cfg) = NoError}
    /\ InitWorkers

InitConfig ==
    /\ configValue \in {cfg \in Configs : Validate(cfg) = NoError}
    /\ InitWorkers

\* Mutant of Update: the first payload is stored whatever the count
UpdateStoresFirst(newConfig) ==
    /\ configValue' =
          IF Len(newConfig) >= 1 /\ newConfig[1].type = "Config"
          THEN newConfig[1].value
          ELSE configValue
    /\ lastUpdate' = [newConfig |-> newConfig, err |-> UpdateErr(newConfig)]
    /\ UNCHANGED <<pc, via, hc, ev, args, c, req, posts, resp, ret, diag>>

\* Service.Update(newConfig)
Update(newConfig) ==
    /\ configValue' =
          IF UpdateErr(newConfig) = NoError THEN newConfig[1].value ELSE configValue
    /\ lastUpdate' = [newConfig |-> newConfig, err |-> UpdateErr(newConfig)]
    /\ UNCHANGED <<pc, via, hc, ev, args, c, req, posts, resp, ret, diag>>

\* Alert returns err to its caller v, having written entries to s.diag; a
\* Handle caller then logs the error, a Test caller returns it.
Returns(w, v, err, entries) ==
    /\ ret' = [ret EXCEPT ![w] = err]
    /\ diag' = [diag EXCEPT ![w] = entries \o HandleLog(v, err)]
    /\ pc' = [pc EXCEPT ![w] = "done"]

\* Entry of Alert called by v with arguments a: the load of the
\* configuration and the enabled gate
AlertEnter(w, v, a) ==
    /\ via' = [via EXCEPT ![w] = v]
    /\ args' = [args EXCEPT ![w] = a]
    /\ c' = [c EXCEPT ![w] = config]
    /\ IF ~Enabled(config)
       THEN Returns(w, v, "service is not enabled", <<>>)
       ELSE /\ pc' = [pc EXCEPT ![w] = "loaded"]
            /\ UNCHANGED <<ret, diag>>
    /\ UNCHANGED <<configValue, lastUpdate, req, posts, resp>>

\* handler.Handle(event) up to Alert's gate
Handle(w, h, e) ==
    /\ pc[w] = "idle"
    /\ hc' = [hc EXCEPT ![w] = h]
    /\ ev' = [ev EXCEPT ![w] = e]
    /\ AlertEnter(w, "Handle",
          [check |-> e.ID, entity |-> ResolveEntity(h, e), message |-> e.Message,
           namespace |-> h.Namespace, handlers |-> h.Handlers,
           labels |-> h.Labels, level |-> e.Level])

\* Service.Test(options) up to Alert's gate
Test(w, o) ==
    /\ pc[w] = "idle"
    /\ UNCHANGED <<hc, ev>>
    /\ IF o.type # "*testOptions"
       THEN /\ via' = [via EXCEPT ![w] = "Test"]
            /\ Returns(w, "Test", "unexpected options type " \o o.type, <<>>)
            /\ UNCHANGED <<configValue, lastUpdate, args, c, req, posts, resp>>
       ELSE AlertEnter(w, "Test",
               [check |-> o.Check, entity |-> o.Entity, message |-> o.Message,
                namespace |-> o.Namespace, handlers |-> o.Handlers,
                labels |-> o.Labels, level |-> o.Level])

\* Alert from the status switch to the call of httpClient.Do
AlertBuild(w, now) ==
    /\ pc[w] = "loaded"
    /\ LET m == Marshal(BuildEvent(args[w], c[w], now))
           r == NewRequest(w, m.data)
       IN  IF m.err # NoError
           THEN /\ Returns(w, via[w], m.err, <<>>)
                /\ UNCHANGED <<req, posts>>
           ELSE IF r.err # NoError
           THEN /\ Returns(w, via[w], r.err, <<>>)
                /\ UNCHANGED <<req, posts>>
           ELSE /\ req' = [req EXCEPT ![w] = r.req]
                /\ posts' = [posts EXCEPT ![w] = @ + 1]
                /\ pc' = [pc EXCEPT ![w] = "posting"]
                /\ UNCHANGED <<ret, diag>>
    /\ UNCHANGED <<configValue, lastUpdate, via, hc, ev, args, c, resp>>

\* httpClient.Do returns r: the rest of Alert, and of Handle
AlertRespond(w, r) ==
    /\ pc[w] = "posting"
    /\ r \in DoOutcomes(req[w].url)
    /\ resp' = [resp EXCEPT ![w] = r]
    /\ Returns(w, via[w], AlertErr(r), AlertLog(r))
    /\ UNCHANGED <<configValue, lastUpdate, via, hc, ev, args, c, req, posts>>

\* The caller goes on: the locals of the finished call are gone
Return(w) ==
    /\ pc[w] = "done"
    /\ pc' = [pc EXCEPT ![w] = "idle"]
    /\ via' = [via EXCEPT ![w] = "-"]
    /\ hc' = [hc EXCEPT ![w] = Nil]
    /\ ev' = [ev EXCEPT ![w] = Nil]
    /\ args' = [args EXCEPT ![w] = Nil]
    /\ c' = [c EXCEPT ![w] = Nil]
    /\ req' = [req EXCEPT ![w] = Nil]
    /\ posts' = [posts EXCEPT ![w] = 0]
    /\ resp' = [resp EXCEPT ![w] = Nil]
    /\ ret' = [ret EXCEPT ![w] = "-"]
    /\ diag' = [diag EXCEPT ![w] = <<>>]
    /\ UNCHANGED <<configValue, lastUpdate>>

\* The longest slice Update is called with
MaxPayloads == 2

\* Slices of two and more payloads hold these
FewPayloads == {Payload(CHOOSE cfg \in Configs : cfg.Enabled /\ cfg.URL # ""), NotAConfig}

UpdateLists ==
    {<<>>}
    \cup {<<p>> : p \in {Payload(cfg) : cfg \in Configs} \cup {NotAConfig}}
    \cup UNION {[1..n -> FewPayloads] : n \in 2..MaxPayloads}

\* What Update is called with while deliveries run
HotUpdateLists ==
    {<<>>}
    \cup {<<p>> : p \in {Payload(cfg) : cfg \in HotConfigs} \cup {NotAConfig}}

DoUpdate == \E newConfig \in UpdateLists : Update(newConfig)

DoHotUpdate == \E newConfig \in HotUpdateLists : Update(newConfig)

DoHandle == \E w \in Workers, h \in HandlerConfigs, e \in Events : Handle(w, h, e)

DoTest == \E w \in Workers, o \in TestInputs : Test(w, o)

DoAlertBuild == \E w \in Workers, now \in Clock : AlertBuild(w, now)

DoAlertRespond ==
    \E w \in Workers, r \in DoOutcomes("") \cup DoOutcomes("http://sensu:8080/api") :
        AlertRespond(w, r)

DoReturn == \E w \in Workers : Return(w)

Next ==
    \/ DoHotUpdate
    \/ DoHandle
    \/ DoTest
    \/ DoAlertBuild
    \/ DoAlertRespond
    \/ DoReturn

\* The service with deliveries and updates interleaved
Spec == Init /\ [][Next]_vars

NextConfig == DoUpdate

\* The configuration holder alone
SpecConfig == InitConfig /\ [][NextConfig]_vars

----------------------------------------------------------------------------
(* Properties *)

Done(w) == pc[w] = "done"

\* Do returned a transport error to the call of w
TransportFailed(w) == resp[w] # Nil /\ resp[w].err # NoError

\* Do returned a response with a status outside 2xx to the call of w
Rejected(w) ==
    resp[w] # Nil /\ resp[w].err = NoError
    /\ (resp[w].status < 200 \/ resp[w].status > 299)

ServiceEntries(w) == {i \in 1..Len(diag[w]) : diag[w][i].sink = "service"}

HandlerEntries(w) == {i \in 1..Len(diag[w]) : diag[w][i].sink = "handler"}

\* C1: an Alert that loaded a configuration with enabled = false has returned
\* an error, has built no request, has made no call of httpClient.Do and has
\* written no entry of its own, whatever its other arguments.
C1_DisabledFailsWithoutRequest ==
    \A w \in Workers :
        (c[w] # Nil /\ ~c[w].Enabled) =>
            /\ Done(w)
            /\ ret[w] = "service is not enabled"
            /\ req[w] = Nil /\ posts[w] = 0 /\ resp[w] = Nil
            /\ ServiceEntries(w) = {}

C1_Witness ==
    \E w \in Workers :
        /\ Done(w) /\ via[w] = "Handle" /\ c[w] # Nil /\ ~c[w].Enabled
        /\ c[w].URL # "" /\ args[w].level = "Critical"

\* C2: the stored configuration has a non-empty url whenever it is enabled.
C2_EnabledImpliesURL == configValue.Enabled => configValue.URL # ""

\* C3: the snapshot of a call is set once, at the start of Alert, to the
\* whole configuration stored at that moment, and the request the call
\* builds takes its URL, its token and both defaults from that snapshot,
\* whatever Update stores in between.
C3_OneSnapshot ==
    /\ [](\A w \in Workers :
            /\ c[w] # Nil => c[w] \in Configs
            /\ req[w] # Nil =>
                /\ c[w] # Nil /\ c[w].Enabled
                /\ req[w].url = c[w].URL
                /\ req[w].Authorization = c[w].Token
                /\ req[w].body.entity.metadata.namespace
                      \in {args[w].namespace, c[w].Namespace}
                /\ req[w].body.check.handlers
                      \in {args[w].handlers, c[w].Handlers}
                /\ (args[w].namespace = ""
                      => req[w].body.entity.metadata.namespace = c[w].Namespace)
                /\ (args[w].handlers = <<>>
                      => req[w].body.check.handlers = c[w].Handlers))
    /\ [][\A w \in Workers :
            c'[w] # c[w] =>
                \/ c[w] = Nil /\ pc[w] = "idle" /\ c'[w] = configValue
                \/ c'[w] = Nil /\ pc'[w] = "idle"]_vars

C3_Witness ==
    \E w \in Workers :
        /\ Done(w) /\ req[w] # Nil /\ resp[w] # Nil
        /\ configValue.Enabled /\ configValue.URL # c[w].URL
        /\ configValue.Token # c[w].Token
        /\ args[w].namespace = "" /\ args[w].handlers = <<>>

\* C4: an Update given no payload, two or more payloads or one payload that
\* is not a Config returns an error and leaves the stored configuration as it
\* was; an Update given exactly one Config returns no error and leaves the
\* stored configuration equal to that Config.
C4_UpdateReplacesOrFails ==
    [][LET u == lastUpdate'
       IN  /\ u.err # NoError <=>
                 (Len(u.newConfig) # 1 \/ u.newConfig[1].type # "Config")
           /\ u.err # NoError => configValue' = configValue
           /\ u.err = NoError =>
                 /\ configValue' = u.newConfig[1].value
                 /\ \A f \in {"Enabled", "URL", "Token", "Namespace", "Handlers"} :
                       configValue'[f] = u.newConfig[1].value[f]]_vars

C4_Witness ==
    /\ lastUpdate.err = NoError
    /\ Len(lastUpdate.newConfig) = 1
    /\ configValue = lastUpdate.newConfig[1].value
    /\ ~configValue.Enabled /\ configValue.Token = "Key b"
    /\ configValue.Namespace = "" /\ configValue.Handlers # <<>>

\* C5: when Do returned a response with a status outside 2xx, Alert returned
\* nil and the call wrote exactly one entry, on the service's sink, carrying
\* the status code; Handle added none.
C5_Non2xxLoggedNotReturned ==
    \A w \in Workers :
        (Done(w) /\ Rejected(w)) =>
            /\ ret[w] = NoError
            /\ Len(diag[w]) = 1
            /\ diag[w][1].sink = "service"
            /\ HandlerEntries(w) = {}
            /\ (resp[w].status = 500 =>
                  /\ diag[w][1].code = "500"
                  /\ diag[w][1].msg = "POST returned non 2xx status code (500)")

C5_Witness ==
    \E w \in Workers :
        Done(w) /\ via[w] = "Handle" /\ Rejected(w) /\ resp[w].status = 500

\* C6 as stated: when Do returned a transport error, Alert returned that
\* error and the call wrote exactly one entry, over both sinks, called
\* directly or through Handle.
C6_ExactlyOneEntry ==
    \A w \in Workers :
        (Done(w) /\ TransportFailed(w)) =>
            /\ ret[w] = resp[w].err
            /\ Len(diag[w]) = 1

\* C6 as amended: when Do returned a transport error, Alert returned that
\* error and wrote exactly one entry, on the service's sink, carrying it;
\* called directly that is the only entry of the delivery, and through Handle
\* it is followed by exactly one entry on the handler's sink carrying the
\* same error, two entries in all.
C6_OneEntryPerLayer ==
    \A w \in Workers :
        (Done(w) /\ TransportFailed(w)) =>
            /\ ret[w] = resp[w].err
            /\ ServiceEntries(w) = {1}
            /\ diag[w][1].err = resp[w].err
            /\ via[w] = "Test" => Len(diag[w]) = 1
            /\ via[w] = "Handle" =>
                  /\ Len(diag[w]) = 2
                  /\ diag[w][2].sink = "handler"
                  /\ diag[w][2].err = resp[w].err

C6_Witness ==
    \E w \in Workers :
        /\ Done(w) /\ via[w] = "Handle" /\ TransportFailed(w)
        /\ resp[w].err = "context deadline exceeded"
        /\ Len(diag[w]) = 2

\* C7: a call of Handle makes at most one call of httpClient.Do, and once it
\* is over the error Alert returned, if any, is the last entry of the call,
\* on the handler's sink; a call whose Alert returned nil wrote none there.
C7_HandleLogsAndSwallows ==
    \A w \in Workers :
        via[w] = "Handle" =>
            /\ posts[w] <= 1
            /\ pc[w] \in {"loaded", "posting"} => diag[w] = <<>>
            /\ (Done(w) /\ ret[w] # NoError) =>
                  /\ HandlerEntries(w) = {Len(diag[w])}
                  /\ diag[w][Len(diag[w])].err = ret[w]
            /\ (Done(w) /\ ret[w] = NoError) => HandlerEntries(w) = {}

C7_Witness ==
    \E w \in Workers :
        /\ Done(w) /\ via[w] = "Handle"
        /\ ret[w] = "failed to create POST request: missing protocol scheme"
        /\ posts[w] = 0 /\ Len(diag[w]) = 1

\* C8: the namespace of the event is the namespace argument when it is not
\* empty and the snapshot's otherwise, and the handler list of the event is
\* the handlers argument when it is not empty and the snapshot's otherwise,
\* each whatever the other.
C8_OverridesElseDefaults ==
    \A w \in Workers :
        req[w] # Nil =>
            LET event == req[w].body
            IN  /\ args[w].namespace # "" =>
                      event.entity.metadata.namespace = args[w].namespace
                /\ args[w].namespace = "" =>
                      event.entity.metadata.namespace = c[w].Namespace
                /\ args[w].handlers # <<>> =>
                      event.check.handlers = args[w].handlers
                /\ args[w].handlers = <<>> =>
                      event.check.handlers = c[w].Handlers

C8_Witness ==
    \E w \in Workers :
        /\ req[w] # Nil
        /\ args[w].namespace = "" /\ c[w].Namespace = "default"
        /\ args[w].handlers = <<"pagerduty">> /\ c[w].Handlers # <<>>
        /\ req[w].body.entity.metadata.namespace = "default"
        /\ req[w].body.check.handlers = <<"pagerduty">>

\* C9: the entity Handle passes to Alert is the static entity name when that
\* is not empty; otherwise the value of the entity tag when a key is set and
\* the event has it; otherwise the empty string, which goes into the event
\* as it is and makes no call fail.
C9_EntityResolution ==
    \A w \in Workers :
        via[w] = "Handle" =>
            /\ hc[w].Entity # "" => args[w].entity = hc[w].Entity
            /\ (hc[w].Entity = "" /\ hc[w].EntityTag # "") =>
                  \/ \E t \in ev[w].Tags :
                        t[1] = hc[w].EntityTag /\ args[w].entity = t[2]
                  \/ /\ \A t \in ev[w].Tags : t[1] # hc[w].EntityTag
                     /\ args[w].entity = ""
            /\ (hc[w].Entity = "" /\ hc[w].EntityTag = "") => args[w].entity = ""
            /\ req[w] # Nil => req[w].body.entity.metadata.name = args[w].entity
            /\ (args[w].entity = "" /\ c[w].Enabled /\ ParseErr(c[w].URL) = NoError)
                  => pc[w] = "loaded" \/ req[w] # Nil
            /\ (args[w].entity = "" /\ Done(w) /\ resp[w] # Nil
                  /\ resp[w].err = NoError) => ret[w] = NoError

C9_Witness ==
    \E w \in Workers :
        /\ via[w] = "Handle" /\ Done(w)
        /\ hc[w].Entity = "" /\ hc[w].EntityTag = "host"
        /\ <<"host", "db1">> \in ev[w].Tags
        /\ args[w].entity = "db1"
        /\ req[w] # Nil /\ req[w].body.entity.metadata.name = "db1"

\* C10: the status of the event is 0 for the levels OK and Info, 1 for
\* Warning, 2 for Critical and 3 for any other level, whatever the
\* configuration and the other arguments.
C10_StatusOfLevel ==
    \A w \in Workers :
        req[w] # Nil =>
            LET status == req[w].body.check.status
                level == args[w].level
            IN  /\ level \in {"OK", "Info"} => status = 0
                /\ level = "Warning" => status = 1
                /\ level = "Critical" => status = 2
                /\ level \notin {"OK", "Info", "Warning", "Critical"} => status = 3

C10_Witness ==
    \E w \in Workers :
        /\ req[w] # Nil /\ args[w].level = "maxLevel"
        /\ req[w].body.check.status = 3

====
